---- MODULE Spec2Model ----
(***************************************************************************)
(* Model of amir.py: a Telegram bot that stores per-subject scores keyed   *)
(* by the HMAC of an Iranian national code in one SQLite table.            *)
(*                                                                         *)
(* A text is a sequence of one-character strings.  Persian digits are      *)
(* written "p0".."p9" and the Persian letters of the seed subjects by     *)
(* their names ("alef", "beh", ...); the Arabic-Indic digits, which are    *)
(* other code points than the Persian ones, are written "a0".."a9".        *)
(***************************************************************************)
EXTENDS Integers, Sequences, FiniteSets, Bags, TLC

\* ------------------------------------------------------------------ bounds
MaxClock == 1
MaxRows == 2

\* ------------------------------------------------------------- characters
AsciiDigits == <<"0", "1", "2", "3", "4", "5", "6", "7", "8", "9">>
PersianDigits == <<"p0", "p1", "p2", "p3", "p4", "p5", "p6", "p7", "p8", "p9">>
ArabicDigits == <<"a0", "a1", "a2", "a3", "a4", "a5", "a6", "a7", "a8", "a9">>

Range(f) == {f[i] : i \in DOMAIN f}

\* str.isspace for the characters of the model
Whitespace == {" ", "\n", "\t"}

\* the character class [|:\s] of SPLIT_RE
SPLIT_RE == {"|", ":"} \cup Whitespace

\* the characters \d matches (Python 3 str patterns match Unicode digits)
UnicodeDigits == Range(AsciiDigits) \cup Range(PersianDigits) \cup Range(ArabicDigits)

\* int() of one digit character
DigitVal(c) ==
    IF c \in Range(AsciiDigits)
    THEN (CHOOSE i \in 1..10 : AsciiDigits[i] = c) - 1
    ELSE IF c \in Range(PersianDigits)
    THEN (CHOOSE i \in 1..10 : PersianDigits[i] = c) - 1
    ELSE (CHOOSE i \in 1..10 : ArabicDigits[i] = c) - 1

\* D(<<0, 1, 2>>) is the text "012"
D(ns) == [i \in DOMAIN ns |-> AsciiDigits[ns[i] + 1]]

\* P(<<0, 1, 2>>) is the same number written with Persian digits
P(ns) == [i \in DOMAIN ns |-> PersianDigits[ns[i] + 1]]

\* A(<<0, 1, 2>>) is the same number written with Arabic-Indic digits
A(ns) == [i \in DOMAIN ns |-> ArabicDigits[ns[i] + 1]]

\* ------------------------------------------------------- string primitives
persian_to_english_number(text) ==
    [i \in DOMAIN text |->
        IF text[i] \in Range(PersianDigits)
        THEN AsciiDigits[(CHOOSE k \in 1..10 : PersianDigits[k] = text[i])]
        ELSE text[i]]

Letters ==
    <<"a", "b", "c", "d", "e", "f", "g", "h", "i", "j", "k", "l", "m",
      "n", "o", "p", "q", "r", "s", "t", "u", "v", "w", "x", "y", "z">>

Capitals ==
    <<"A", "B", "C", "D", "E", "F", "G", "H", "I", "J", "K", "L", "M",
      "N", "O", "P", "Q", "R", "S", "T", "U", "V", "W", "X", "Y", "Z">>

\* the Persian letters of the seed subjects, in code-point order
PersianLetters == <<"alef", "beh", "reh", "zain", "sin", "zad", "feh", "noon", "yeh">>

\* U+0627, U+0628, U+0631, U+0632, U+0633, U+0636, U+0641, U+0646, U+06CC
PersianLetterPoints == <<1575, 1576, 1585, 1586, 1587, 1590, 1601, 1606, 1740>>

IndexOf(seq, c) == CHOOSE i \in DOMAIN seq : seq[i] = c

\* ord(): the order Python and SQLite's BINARY collation compare texts by
CodePoint(c) ==
    CASE c = "\t" -> 9
      [] c = "\n" -> 10
      [] c = " " -> 32
      [] c = "/" -> 47
      [] c \in Range(AsciiDigits) -> 47 + IndexOf(AsciiDigits, c)
      [] c = ":" -> 58
      [] c \in Range(Capitals) -> 64 + IndexOf(Capitals, c)
      [] c = "_" -> 95
      [] c \in Range(Letters) -> 96 + IndexOf(Letters, c)
      [] c = "|" -> 124
      [] c \in Range(PersianLetters) -> PersianLetterPoints[IndexOf(PersianLetters, c)]
      [] c \in Range(ArabicDigits) -> 1631 + IndexOf(ArabicDigits, c)
      [] c \in Range(PersianDigits) -> 1775 + IndexOf(PersianDigits, c)

\* str.lower
Lower(text) ==
    [i \in DOMAIN text |->
        IF text[i] \in Range(Capitals) THEN Letters[IndexOf(Capitals, text[i])]
        ELSE text[i]]

RECURSIVE LStrip(_)
LStrip(text) ==
    IF text # <<>> /\ Head(text) \in Whitespace THEN LStrip(Tail(text)) ELSE text

RECURSIVE RStrip(_)
RStrip(text) ==
    IF text # <<>> /\ text[Len(text)] \in Whitespace
    THEN RStrip(SubSeq(text, 1, Len(text) - 1))
    ELSE text

\* str.strip
Strip(text) == RStrip(LStrip(text))

\* text.partition(' ')[2]: what follows the first space, "" when there is none
RECURSIVE PartitionTail(_)
PartitionTail(text) ==
    IF text = <<>> THEN <<>>
    ELSE IF Head(text) = " " THEN Tail(text)
    ELSE PartitionTail(Tail(text))

\* re.split of SPLIT_RE ([|:\s]+): the pieces between maximal separator runs,
\* an empty piece included when the text starts or ends with a separator
RECURSIVE SplitFrom(_, _, _)
SplitFrom(text, cur, inSep) ==
    IF text = <<>> THEN <<cur>>
    ELSE IF Head(text) \in SPLIT_RE
         THEN IF inSep THEN SplitFrom(Tail(text), cur, TRUE)
              ELSE <<cur>> \o SplitFrom(Tail(text), <<>>, TRUE)
         ELSE SplitFrom(Tail(text), Append(cur, Head(text)), FALSE)

ReSplit(text) == SplitFrom(text, <<>>, FALSE)

\* [p.strip() for p in SPLIT_RE.split(text) if p.strip()]
NonEmpty(pieces) ==
    SelectSeq([i \in DOMAIN pieces |-> Strip(pieces[i])], LAMBDA p : p # <<>>)

Parts(text) == NonEmpty(ReSplit(text))

\* str.splitlines on "\n"
RECURSIVE LinesFrom(_, _)
LinesFrom(text, cur) ==
    IF text = <<>> THEN (IF cur = <<>> THEN <<>> ELSE <<cur>>)
    ELSE IF Head(text) = "\n" THEN <<cur>> \o LinesFrom(Tail(text), <<>>)
    ELSE LinesFrom(Tail(text), Append(cur, Head(text)))

SplitLines(text) == LinesFrom(text, <<>>)

\* ' '.join(parts)
RECURSIVE JoinSpace(_)
JoinSpace(parts) ==
    IF parts = <<>> THEN <<>>
    ELSE IF Len(parts) = 1 THEN parts[1]
    ELSE parts[1] \o <<" ">> \o JoinSpace(Tail(parts))

\* float(): a run of ASCII digits is its decimal value, "nan" is the NaN
\* float, and the other texts of the model raise ValueError
RECURSIVE DecimalValue(_)
DecimalValue(text) ==
    IF text = <<>> THEN 0
    ELSE 10 * DecimalValue(SubSeq(text, 1, Len(text) - 1)) + DigitVal(text[Len(text)])

\* a float is [kind |-> "num", val |-> n] or NaN; ValueError is the exception
Num(n) == [kind |-> "num", val |-> n]
NaN == [kind |-> "nan", val |-> 0]
ValueError == [kind |-> "ValueError", val |-> 0]

Float(text) ==
    IF text # <<>> /\ Range(text) \subseteq UnicodeDigits THEN Num(DecimalValue(text))
    ELSE IF Lower(text) = <<"n", "a", "n">> THEN NaN
    ELSE ValueError

\* ---------------------------------------------------------- configuration
ADMINS == {1}
Users == {1, 2}

\* -------------------------------------------------------- security helpers
\* HMAC-SHA256 under the process secret: a collision-free keyed digest
hmac_code(code) == [hmac_sha256 |-> code]

NATIONAL_CODE_RE(code) == Len(code) = 10 /\ Range(code) \subseteq UnicodeDigits

\* the weights taken one too low
RECURSIVE WeightedSum_OffByOne(_, _)
WeightedSum_OffByOne(digits, i) ==
    IF i > 8 THEN 0 ELSE digits[i + 1] * (9 - i) + WeightedSum_OffByOne(digits, i + 1)

RECURSIVE WeightedSum(_, _)
WeightedSum(digits, i) ==
    IF i > 8 THEN 0 ELSE digits[i + 1] * (10 - i) + WeightedSum(digits, i + 1)

\* the remainder 2 treated like the remainders 0 and 1
valid_iranian_national_code_Le2(code) ==
    IF ~NATIONAL_CODE_RE(code) THEN FALSE
    ELSE IF Cardinality(Range(code)) = 1 THEN FALSE
    ELSE LET digits == [i \in 1..10 |-> DigitVal(code[i])]
             s == WeightedSum(digits, 0)
             r == s % 11
             check == digits[10]
         IN  IF r <= 2 THEN check = r ELSE check = 11 - r

valid_iranian_national_code(code) ==
    IF ~NATIONAL_CODE_RE(code) THEN FALSE
    ELSE IF Cardinality(Range(code)) = 1 THEN FALSE
    ELSE LET digits == [i \in 1..10 |-> DigitVal(code[i])]
             s == WeightedSum(digits, 0)
             r == s % 11
             check == digits[10]
         IN  IF r < 2 THEN check = r ELSE check = 11 - r

\* ------------------------------------------------------------------ state
VARIABLES
    scores,     \* the rows of table scores, a bag of records (the id column,
                \* which no statement reads, is left out)
    clock,      \* what datetime.utcnow() returns
    running,    \* main() has run
    last,       \* the last update handled and what the handler did with it
    calls       \* the calls of add_or_update_score that callers other than
                \* the handlers of this process have in progress on the table

vars == <<scores, clock, running, last, calls>>

\* ---------------------------------------------------------------- data ops
Row(code_h, subj, score, now) ==
    [code_hmac |-> code_h, subject |-> subj, score |-> score, updated_at |-> now]

\* the rows of db with this key and subject
Matching(db, code_h, subj) ==
    {r \in BagToSet(db) : r.code_hmac = code_h /\ r.subject = subj}

\* the rows of db with this key
OfKey(db, code_h) == {r \in BagToSet(db) : r.code_hmac = code_h}

RECURSIVE CountIn(_, _)
CountIn(db, rows) ==
    IF rows = {} THEN 0
    ELSE LET r == CHOOSE x \in rows : TRUE
         IN  CopiesIn(r, db) + CountIn(db, rows \ {r})

\* db without the rows of the set rows
Without(db, rows) ==
    LET keep == BagToSet(db) \ rows
    IN  [r \in keep |-> db[r]]

\* the conflict looked for under the subject as given, not as stored
add_or_update_score_RawConflict(db, national_code, subject, score, now) ==
    LET code_h == hmac_code(national_code)
        subj == Lower(Strip(subject))
        conflict == Matching(db, code_h, subject)
    IN  IF score.kind = "nan"
        THEN [db |-> db, raised |-> TRUE]
        ELSE [db |-> Without(db, conflict)
                        (+) SetToBag({Row(code_h, subj, score.val, now)}),
              raised |-> FALSE]

\* a plain INSERT into a table without the UNIQUE constraint
add_or_update_score_Insert(db, national_code, subject, score, now) ==
    LET code_h == hmac_code(national_code)
        subj == Lower(Strip(subject))
    IN  IF score.kind = "nan"
        THEN [db |-> db, raised |-> TRUE]
        ELSE [db |-> db (+) SetToBag({Row(code_h, subj, score.val, now)}),
              raised |-> FALSE]

\* ON CONFLICT DO NOTHING: the row that is there stays
add_or_update_score_KeepFirst(db, national_code, subject, score, now) ==
    LET code_h == hmac_code(national_code)
        subj == Lower(Strip(subject))
        conflict == Matching(db, code_h, subj)
    IN  IF score.kind = "nan"
        THEN [db |-> db, raised |-> TRUE]
        ELSE IF conflict = {}
        THEN [db |-> db (+) SetToBag({Row(code_h, subj, score.val, now)}),
              raised |-> FALSE]
        ELSE [db |-> db, raised |-> FALSE]

\* INSERT ... ON CONFLICT(code_hmac, subject) DO UPDATE SET score, updated_at.
\* A NaN score is bound as NULL and fails the NOT NULL constraint.
add_or_update_score(db, national_code, subject, score, now) ==
    LET code_h == hmac_code(national_code)
        subj == Lower(Strip(subject))
        conflict == Matching(db, code_h, subj)
    IN  IF score.kind = "nan"
        THEN [db |-> db, raised |-> TRUE]
        ELSE IF conflict = {}
        THEN [db |-> db (+) SetToBag({Row(code_h, subj, score.val, now)}),
              raised |-> FALSE]
        ELSE [db |-> Without(db, conflict)
                        (+) SetToBag({Row(code_h, subj, score.val, now)}),
              raised |-> FALSE]

\* the DELETE without its subject condition
remove_score_KeyOnly(db, national_code, subject) ==
    LET code_h == hmac_code(national_code)
        hit == OfKey(db, code_h)
        changed == CountIn(db, hit)
    IN  [db |-> Without(db, hit), ret |-> changed > 0]

\* DELETE ... WHERE code_hmac = ? AND subject = ?; rowcount > 0
remove_score(db, national_code, subject) ==
    LET code_h == hmac_code(national_code)
        subj == Lower(Strip(subject))
        hit == Matching(db, code_h, subj)
        changed == CountIn(db, hit)
    IN  [db |-> Without(db, hit), ret |-> changed > 0]

\* the DELETE without its WHERE clause
remove_all_scores_Everything(db, national_code) ==
    [db |-> EmptyBag, ret |-> BagCardinality(db)]

\* DELETE ... WHERE code_hmac = ?; rowcount
remove_all_scores(db, national_code) ==
    LET code_h == hmac_code(national_code)
        hit == OfKey(db, code_h)
        removed == CountIn(db, hit)
    IN  [db |-> Without(db, hit), ret |-> removed]

\* texts compared code point by code point, a proper prefix first
RECURSIVE TextLess(_, _)
TextLess(a, b) ==
    IF b = <<>> THEN FALSE
    ELSE IF a = <<>> THEN TRUE
    ELSE IF CodePoint(Head(a)) # CodePoint(Head(b))
         THEN CodePoint(Head(a)) < CodePoint(Head(b))
         ELSE TextLess(Tail(a), Tail(b))

\* SELECT subject, score, updated_at ... WHERE code_hmac = ? ORDER BY subject
RECURSIVE Ordered(_, _)
RECURSIVE OrderedFrom(_, _, _)
OrderedFrom(db, rows, first) ==
    [i \in 1..CopiesIn(first, db) |-> <<first.subject, first.score, first.updated_at>>]
    \o Ordered(db, rows \ {first})

Ordered(db, rows) ==
    IF rows = {} THEN <<>>
    ELSE OrderedFrom(db, rows,
                     CHOOSE r \in rows : \A o \in rows : ~TextLess(o.subject, r.subject))

\* the SELECT without its WHERE clause
lookup_scores_AnyKey(db, national_code) == Ordered(db, BagToSet(db))

lookup_scores(db, national_code) == Ordered(db, OfKey(db, hmac_code(national_code)))

\* the subject trimmed but not lower-cased
lookup_subject_NoLower(db, national_code, subject) ==
    LET code_h == hmac_code(national_code)
        subj == Strip(subject)
        hit == Matching(db, code_h, subj)
    IN  IF hit = {} THEN <<>>
        ELSE LET r == CHOOSE x \in hit : TRUE
             IN  <<r.subject, r.score, r.updated_at>>

\* SELECT ... WHERE code_hmac = ? AND subject = ?; fetchone, <<>> for None
lookup_subject(db, national_code, subject) ==
    LET code_h == hmac_code(national_code)
        subj == Lower(Strip(subject))
        hit == Matching(db, code_h, subj)
    IN  IF hit = {} THEN <<>>
        ELSE LET r == CHOOSE x \in hit : TRUE
             IN  <<r.subject, r.score, r.updated_at>>

\* every caller taken for an admin
is_admin_Anyone(user_id) == TRUE

is_admin(user_id) == user_id \in ADMINS

\* ------------------------------------------------------------------- inputs
Sp == <<" ">>
NL == <<"\n">>

CodeA == D(<<0, 0, 1, 2, 3, 4, 5, 6, 7, 9>>)
CodeB == D(<<0, 0, 8, 4, 5, 7, 1, 2, 3, 3>>)
CodeAPersian == P(<<0, 0, 1, 2, 3, 4, 5, 6, 7, 9>>)
CodeAArabic == A(<<0, 0, 1, 2, 3, 4, 5, 6, 7, 9>>)
\* the codes of the seed data of main()
SeedCode1 == D(<<0, 0, 1, 2, 3, 4, 5, 6, 7, 4>>)
SeedCode2 == D(<<0, 0, 8, 4, 5, 7, 1, 2, 3, 9>>)

Math == <<"m", "a", "t", "h">>
MathCap == <<"M", "a", "t", "h">>
\* a subject with a separator of SPLIT_RE inside
MathColon == <<"m", "a", "t", "h", ":", "a">>
Persian == <<"p", "e", "r", "s", "i", "a", "n">>
Riazi == <<"reh", "yeh", "alef", "zad", "yeh">>
Farsi == <<"feh", "alef", "reh", "sin", "yeh">>
Zaban == <<"zain", "beh", "alef", "noon">>

S16 == D(<<1, 6>>)
S17 == D(<<1, 7>>)
S18 == D(<<1, 8>>)
S17Persian == P(<<1, 7>>)
SNan == <<"n", "a", "n">>
SBad == <<"x">>

Triple(code, subject, score_s) == code \o Sp \o subject \o Sp \o score_s

AddPayloads ==
    { Triple(CodeA, Math, S18), Triple(CodeA, Math, S17),
      Triple(CodeA, Persian, S17),
      CodeA \o <<"|">> \o MathCap \o <<":">> \o S18,
      Triple(CodeAPersian, Math, S17Persian),
      Triple(SeedCode1, Math, S18), Triple(CodeA, Math, SBad),
      Triple(CodeA, Math, SNan), CodeA \o Sp \o Math,
      Triple(CodeAArabic, Math, S16) }

Command(name, payload) == <<"/">> \o name \o Sp \o payload

AddTexts ==
    { Command(<<"a", "d", "d">>, p) : p \in AddPayloads } \cup { <<"/", "a", "d", "d">> }

EditTexts ==
    { Command(<<"e", "d", "i", "t">>, p) :
        p \in { Triple(CodeA, Math, S17), Triple(CodeA, Persian, S17) } }

RemoveTexts ==
    { Command(<<"r", "e", "m", "o", "v", "e">>, p) :
        p \in { CodeA \o Sp \o Math, CodeA \o Sp \o Persian, CodeB \o Sp \o Math,
                CodeAPersian \o <<"|">> \o MathCap, SeedCode1 \o Sp \o Riazi, CodeA } }

RemoveAllTexts ==
    { Command(<<"r", "e", "m", "o", "v", "e", "_", "a", "l", "l">>, p) :
        p \in { CodeA, CodeB, SeedCode1, <<>> } }

\* the lines a bulk payload is made of
BulkLines ==
    { Triple(CodeA, Math, S18), <<"b", "a", "d", " ", "r", "o", "w">>,
      Triple(CodeA, Persian, S17), Triple(CodeA, Math, SBad),
      Triple(CodeA, Persian, SNan) }

SeqsUpTo(S, n) == UNION { [1..k -> S] : k \in 1..n }

RECURSIVE JoinLines(_)
JoinLines(lines) ==
    IF Len(lines) = 1 THEN lines[1]
    ELSE lines[1] \o NL \o JoinLines(Tail(lines))

\* the batch of the specification's partial-failure example
ExampleBatch ==
    << Triple(SeedCode1, Math, S18), <<"b", "a", "d", " ", "r", "o", "w">>,
       Triple(SeedCode1, Persian, S17) >>

BulkName == <<"a", "d", "d", "_", "b", "u", "l", "k">>

BulkTexts ==
    { Command(BulkName, JoinLines(ls)) :
        ls \in SeqsUpTo(BulkLines, MaxRows) \cup {ExampleBatch} }
    \cup { <<"/">> \o BulkName }

\* the rows a data frame is made of
FileRows ==
    { <<CodeA, Sp \o MathCap \o Sp, S18>>, <<SeedCode1, Math, S18>>,
      <<CodeA, Persian, SNan>>, <<CodeB, Math, SBad>>, <<CodeB, MathColon, S16>> }

\* the rows of a frame of two columns
NarrowRows == { <<CodeA, Math>> }

Files ==
    { [readable |-> TRUE, rows |-> rs] :
        rs \in SeqsUpTo(FileRows, MaxRows) \cup SeqsUpTo(NarrowRows, 1) }
    \cup { [readable |-> FALSE, rows |-> <<>>] }

Messages ==
    { CodeA, CodeA \o Sp \o Math, CodeAPersian \o <<"|">> \o MathCap,
      CodeB, SeedCode1, Math, Sp, CodeAArabic }

\* ----------------------------------------------------------------- handlers
\* what a handler did with an update: the reply it sent ("" for none), whether
\* an exception left the handler, and the values it worked on
Out(op, caller) ==
    [op |-> op, caller |-> caller, reply |-> "", fault |-> FALSE,
     code |-> <<>>, subject |-> <<>>, score |-> Num(0),
     ret |-> FALSE, removed |-> 0, rows |-> <<>>, results |-> <<>>, processed |-> 0,
     keys |-> EmptyBag, again |-> FALSE]

\* a line of the reply of a bulk handler
Line(kind, line, code, subject) ==
    [kind |-> kind, line |-> line, code |-> code, subject |-> subject]

\* what a handler reads off its text before it touches the table: the reply
\* of the check that ends it there, "" when it goes on to the table
Request(reply, code, subject, score) ==
    [reply |-> reply, code |-> code, subject |-> subject, score |-> score]

\* a handler that ends with a reply and leaves the table alone
Replied(db, out, reply) == [db |-> db, out |-> [out EXCEPT !.reply = reply]]

\* the admins-only reply every mutation handler starts with
Refused(db, out) == Replied(db, out, "admins_only")

Seen(out, q) == [out EXCEPT !.code = q.code, !.subject = q.subject, !.score = q.score]

\* try: score = float(score_s) / except ValueError
Scored(code, subject, score) ==
    IF score = ValueError THEN Request("bad_score", code, subject, Num(0))
    ELSE Request("", code, subject, score)

\* the code check and the score parse that add_cmd and the two bulk loops
\* share word for word
Checked(code, subject, score_s) ==
    IF ~valid_iranian_national_code(code) THEN Request("invalid_code", code, subject, Num(0))
    ELSE Scored(code, subject, Float(score_s))

\* code, *middle, score_s = parts, with the digits of code and score_s
\* translated
Unpacked(parts) ==
    IF Len(parts) < 3 THEN Request("bad_format", <<>>, <<>>, Num(0))
    ELSE Checked(persian_to_english_number(parts[1]),
                 JoinSpace(SubSeq(parts, 2, Len(parts) - 1)),
                 persian_to_english_number(parts[Len(parts)]))

AddPayload(payload) ==
    IF payload = <<>> THEN Request("usage", <<>>, <<>>, Num(0))
    ELSE Unpacked(Parts(payload))

\* add_cmd up to the call of add_or_update_score
AddRequest(text) == AddPayload(Strip(PartitionTail(text)))

AddRequests == [text \in AddTexts \cup EditTexts |-> AddRequest(text)]

AddWritten(db, seen, w) ==
    IF w.raised THEN [db |-> db, out |-> [seen EXCEPT !.fault = TRUE]]
    ELSE [db |-> w.db, out |-> [seen EXCEPT !.reply = "saved"]]

AddApply(db, now, seen, q) ==
    IF q.reply # "" THEN Replied(db, seen, q.reply)
    ELSE AddWritten(db, seen, add_or_update_score(db, q.code, q.subject, q.score, now))

AddChecked(db, now, out, q) ==
    IF q.reply \in {"usage", "bad_format"} THEN Replied(db, out, q.reply)
    ELSE AddApply(db, now, Seen(out, q), q)

\* add_cmd, also behind /edit
add_cmd(db, now, op, user, text) ==
    IF ~is_admin(user) THEN Refused(db, Out(op, user))
    ELSE AddChecked(db, now, Out(op, user), AddRequests[text])

edit_cmd(db, now, user, text) == add_cmd(db, now, "edit", user, text)

RemoveUnpacked(code, subject) ==
    IF ~valid_iranian_national_code(code) THEN Request("invalid_code", code, subject, Num(0))
    ELSE Request("", code, subject, Num(0))

RemoveParts(parts) ==
    IF Len(parts) < 2 THEN Request("usage", <<>>, <<>>, Num(0))
    ELSE RemoveUnpacked(persian_to_english_number(parts[1]), JoinSpace(Tail(parts)))

\* remove_cmd up to the call of remove_score
RemoveRequest(text) == RemoveParts(Parts(Strip(PartitionTail(text))))

RemoveRequests == [text \in RemoveTexts |-> RemoveRequest(text)]

Removed(seen, d) ==
    [db |-> d.db,
     out |-> [seen EXCEPT !.ret = d.ret,
                          !.reply = IF d.ret THEN "removed" ELSE "not_found"]]

RemoveApply(db, out, q) ==
    IF q.reply # "" THEN Replied(db, Seen(out, q), q.reply)
    ELSE Removed(Seen(out, q), remove_score(db, q.code, q.subject))

remove_cmd(db, user, text) ==
    IF ~is_admin(user) THEN Refused(db, Out("remove", user))
    ELSE RemoveApply(db, Out("remove", user), RemoveRequests[text])

RemoveAllCode(code) ==
    IF ~valid_iranian_national_code(code) THEN Request("usage", code, <<>>, Num(0))
    ELSE Request("", code, <<>>, Num(0))

\* remove_all_cmd up to the call of remove_all_scores
RemoveAllRequest(text) ==
    RemoveAllCode(persian_to_english_number(Strip(PartitionTail(text))))

RemoveAllRequests == [text \in RemoveAllTexts |-> RemoveAllRequest(text)]

RemovedAll(seen, d) ==
    [db |-> d.db, out |-> [seen EXCEPT !.removed = d.ret, !.reply = "removed_count"]]

RemoveAllApply(db, out, q) ==
    IF q.reply # "" THEN Replied(db, Seen(out, q), q.reply)
    ELSE RemovedAll(Seen(out, q), remove_all_scores(db, q.code))

remove_all_cmd(db, user, text) ==
    IF ~is_admin(user) THEN Refused(db, Out("remove_all", user))
    ELSE RemoveAllApply(db, Out("remove_all", user), RemoveAllRequests[text])

\* SELECT DISTINCT code_hmac FROM scores LIMIT 200
ListLimit == 200

DistinctKeys(db) == {r.code_hmac : r \in BagToSet(db)}

Min(a, b) == IF a < b THEN a ELSE b

\* one pass of the loop of add_bulk_cmd over a line, up to the call of
\* add_or_update_score
LineRequest(line) == Unpacked(Parts(line))

BulkRows(lines) ==
    [i \in DOMAIN lines |-> [line |-> lines[i], q |-> LineRequest(lines[i])]]

\* the lines of the payload of add_bulk_cmd, each with what the loop reads
\* off it
BulkRequest(text) == BulkRows(SplitLines(Strip(PartitionTail(text))))

BulkRequests == [text \in BulkTexts |-> BulkRequest(text)]

\* the end of a pass of a bulk loop: the write raised or the row is reported
RowWritten(db, q, w) ==
    IF w.raised
    THEN [db |-> db, raised |-> TRUE, result |-> Line("raised", <<>>, q.code, q.subject)]
    ELSE [db |-> w.db, raised |-> FALSE, result |-> Line("saved", <<>>, q.code, q.subject)]

\* one pass of a bulk loop over a row whose request is q
RowStep(db, now, line, q) ==
    IF q.reply = "raised"
    THEN [db |-> db, raised |-> TRUE, result |-> Line("raised", <<>>, <<>>, <<>>)]
    ELSE IF q.reply = "bad_format"
    THEN [db |-> db, raised |-> FALSE, result |-> Line("bad_format", line, <<>>, <<>>)]
    ELSE IF q.reply = "invalid_code"
    THEN [db |-> db, raised |-> FALSE, result |-> Line("invalid_code", <<>>, q.code, <<>>)]
    ELSE IF q.reply = "bad_score"
    THEN [db |-> db, raised |-> FALSE, result |-> Line("bad_score", <<>>, q.code, q.subject)]
    ELSE RowWritten(db, q, add_or_update_score(db, q.code, q.subject, q.score, now))

\* one pass of the loop of add_bulk_cmd
BulkLine(db, now, row) == RowStep(db, now, row.line, row.q)

\* a bulk loop before its first pass
LoopStart(db) == [db |-> db, results |-> <<>>, raised |-> FALSE, processed |-> 0]

\* a bulk loop after the pass over row i: an exception leaves the loop, a
\* result is appended
LoopAfter(acc, step, i) ==
    IF step.raised THEN [acc EXCEPT !.raised = TRUE, !.processed = i]
    ELSE [db |-> step.db, results |-> Append(acc.results, step.result),
          raised |-> FALSE, processed |-> i]

\* the for loop of add_bulk_cmd from row i on
RECURSIVE BulkLoop(_, _, _, _)
BulkLoop(acc, now, rows, i) ==
    IF i > Len(rows) \/ acc.raised THEN acc
    ELSE BulkLoop(LoopAfter(acc, BulkLine(acc.db, now, rows[i]), i), now, rows, i + 1)

\* the exception of a write leaves add_bulk_cmd before it replies
BulkReply(out, rows, loop) ==
    [db |-> loop.db,
     out |-> [out EXCEPT !.rows = [i \in DOMAIN rows |-> rows[i].line],
                         !.processed = loop.processed,
                         !.results = loop.results,
                         !.fault = loop.raised,
                         !.reply = IF loop.raised THEN "" ELSE "results"]]

BulkApply(db, now, out, rows) ==
    IF rows = <<>> THEN Replied(db, out, "usage")
    ELSE BulkReply(out, rows, BulkLoop(LoopStart(db), now, rows, 1))

add_bulk_cmd(db, now, user, text) ==
    IF ~is_admin(user) THEN Refused(db, Out("add_bulk", user))
    ELSE BulkApply(db, now, Out("add_bulk", user), BulkRequests[text])

\* one pass of the loop of add_file_cmd over a row of the data frame, up to
\* the call of add_or_update_score; a row is the tuple of its cells, and
\* row[2] of a frame of fewer than three columns raises
FileRowRequest(row) ==
    IF Len(row) < 3 THEN Request("raised", <<>>, <<>>, Num(0))
    ELSE Checked(persian_to_english_number(row[1]), row[2],
                 persian_to_english_number(row[3]))

FileRowRequests == [row \in FileRows \cup NarrowRows |-> FileRowRequest(row)]

\* one pass of the loop of add_file_cmd
FileRow(db, now, row) == RowStep(db, now, <<>>, FileRowRequests[row])

\* the for loop of add_file_cmd from row i on
RECURSIVE FileLoop(_, _, _, _)
FileLoop(acc, now, rows, i) ==
    IF i > Len(rows) \/ acc.raised THEN acc
    ELSE FileLoop(LoopAfter(acc, FileRow(acc.db, now, rows[i]), i), now, rows, i + 1)

\* the except clause answers every exception of the try block with one
\* error reply
FileReply(out, rows, loop) ==
    [db |-> loop.db,
     out |-> [out EXCEPT !.rows = rows,
                         !.processed = loop.processed,
                         !.results = loop.results,
                         !.reply = IF loop.raised THEN "file_error" ELSE "results"]]

\* file is what pd.read_csv / pd.read_excel make of the document: the rows of
\* the data frame, or readable = FALSE when reading raises
FileApply(db, now, out, file) ==
    IF ~file.readable THEN Replied(db, out, "file_error")
    ELSE FileReply(out, file.rows, FileLoop(LoopStart(db), now, file.rows, 1))

add_file_cmd(db, now, user, file) ==
    IF ~is_admin(user) THEN Refused(db, Out("add_file", user))
    ELSE FileApply(db, now, Out("add_file", user), file)

MessageCode(code, parts) ==
    IF ~NATIONAL_CODE_RE(code) THEN Request("not_ten_digits", code, <<>>, Num(0))
    ELSE IF ~valid_iranian_national_code(code) THEN Request("invalid_code", code, <<>>, Num(0))
    ELSE IF Len(parts) = 1 THEN Request("all", code, <<>>, Num(0))
    ELSE Request("one", code, JoinSpace(Tail(parts)), Num(0))

MessageParts(parts) ==
    IF Len(parts) = 0 THEN Request("usage", <<>>, <<>>, Num(0))
    ELSE MessageCode(persian_to_english_number(parts[1]), parts)

MessageText(text) ==
    IF text = <<>> THEN Request("ignored", <<>>, <<>>, Num(0))
    ELSE MessageParts(Parts(text))

\* handle_message up to the lookups
MessageRequest(raw) == MessageText(Strip(raw))

MessageRequests == [raw \in Messages |-> MessageRequest(raw)]

AllFound(seen, rows) ==
    IF rows = <<>> THEN [seen EXCEPT !.reply = "no_scores"]
    ELSE [seen EXCEPT !.reply = "scores", !.results = rows]

OneFound(seen, row) ==
    IF row = <<>> THEN [seen EXCEPT !.reply = "no_such_subject"]
    ELSE [seen EXCEPT !.reply = "score", !.results = <<row>>]

Reply(out, q, db) ==
    IF q.reply = "ignored" THEN out
    ELSE IF q.reply = "all" THEN AllFound(Seen(out, q), lookup_scores(db, q.code))
    ELSE IF q.reply = "one"
    THEN OneFound(Seen(out, q), lookup_subject(db, q.code, q.subject))
    ELSE [Seen(out, q) EXCEPT !.reply = q.reply]

\* the rows a lookup read are deleted
Answered_Consuming(db, out, q) ==
    [db |-> IF q.reply \in {"all", "one"} THEN Without(db, OfKey(db, hmac_code(q.code)))
            ELSE db,
     out |-> Reply(out, q, db)]

\* the lookups are SELECT statements: the table comes out as it went in
Answered(db, out, q) == [db |-> db, out |-> Reply(out, q, db)]

handle_message(db, user, raw) == Answered(db, Out("message", user), MessageRequests[raw])

\* ------------------------------------------------------------------ actions
\* the callers that may run add_or_update_score on the table at the same time
MaxWriters == 2
Writers == 1..MaxWriters

\* a caller between two calls
Idle ==
    [pc |-> "idle", code |-> <<>>, subject |-> <<>>, score |-> Num(0), now |-> 0, seq |-> 0]

NoCalls == [w \in Writers |-> Idle]

Init ==
    /\ scores = EmptyBag
    /\ clock = 0
    /\ running = FALSE
    /\ last = Out("none", 0)
    /\ calls = NoCalls

\* the sample data of main() added to db
Seeded(db, now) ==
    LET s1 == add_or_update_score(db, SeedCode1, Riazi, Num(18), now).db
        s2 == add_or_update_score(s1, SeedCode1, Farsi, Num(17), now).db
        s3 == add_or_update_score(s2, SeedCode2, Zaban, Num(16), now).db
    IN  s3

\* main(): create the table and, when it is empty, add the sample data
Main ==
    /\ ~running
    /\ LET count == BagCardinality(scores)
       IN  scores' = IF count = 0 THEN Seeded(scores, clock) ELSE scores
    /\ running' = TRUE
    /\ last' = Out("main", 0)
    /\ UNCHANGED <<clock, calls>>

\* time passes
Tick ==
    /\ running
    /\ clock < MaxClock
    /\ clock' = clock + 1
    /\ UNCHANGED <<scores, running, last, calls>>

\* the update writes again what the update before it wrote
Again(before, out) ==
    /\ before.op \in {"add", "edit"} /\ before.reply = "saved"
    /\ out.op \in {"add", "edit"} /\ out.reply = "saved"
    /\ out.code = before.code
    /\ Lower(Strip(out.subject)) = Lower(Strip(before.subject))
    /\ out.score = before.score

\* the table and the record of the update after a handler
Handled(h) == scores' = h.db /\ last' = h.out

\* the same after add_cmd, which may repeat the write before it
Written(h) == scores' = h.db /\ last' = [h.out EXCEPT !.again = Again(last, h.out)]

Add ==
    /\ running
    /\ \E user \in Users, text \in AddTexts :
          Written(add_cmd(scores, clock, "add", user, text))
    /\ UNCHANGED <<clock, running, calls>>

Edit ==
    /\ running
    /\ \E user \in Users, text \in EditTexts :
          Written(edit_cmd(scores, clock, user, text))
    /\ UNCHANGED <<clock, running, calls>>

Remove ==
    /\ running
    /\ \E user \in Users, text \in RemoveTexts :
          Handled(remove_cmd(scores, user, text))
    /\ UNCHANGED <<clock, running, calls>>

RemoveAll ==
    /\ running
    /\ \E user \in Users, text \in RemoveAllTexts :
          Handled(remove_all_cmd(scores, user, text))
    /\ UNCHANGED <<clock, running, calls>>

\* the SELECT without its LIMIT clause
Excess_NoLimit(n) == 0

\* the number of distinct keys LIMIT leaves out when there are n
Excess(n) == n - Min(ListLimit, n)

\* the sets of e keys
RECURSIVE Omissions(_, _)
Omissions(keys, e) ==
    IF e = 0 THEN {{}}
    ELSE UNION { {o \cup {k} : o \in Omissions(keys \ {k}, e - 1)} : k \in keys }

\* the result of the SELECT, a bag of keys: each distinct key once, but for
\* those LIMIT leaves out, whichever they are
Listed(out, keys) ==
    IF keys = {} THEN last' = [out EXCEPT !.reply = "no_data"]
    ELSE \E omitted \in Omissions(keys, Excess(Cardinality(keys))) :
           last' = [out EXCEPT !.reply = "codes", !.keys = SetToBag(keys \ omitted)]

\* list_codes_cmd: up to ListLimit of the distinct keys, whichever SQLite picks
ListCodes ==
    /\ running
    /\ \E user \in Users :
          IF ~is_admin(user) THEN last' = Refused(scores, Out("list_codes", user)).out
          ELSE Listed(Out("list_codes", user), DistinctKeys(scores))
    /\ UNCHANGED <<scores, clock, running, calls>>

AddBulk ==
    /\ running
    /\ \E user \in Users, text \in BulkTexts :
          Handled(add_bulk_cmd(scores, clock, user, text))
    /\ UNCHANGED <<clock, running, calls>>

AddFile ==
    /\ running
    /\ \E user \in Users, file \in Files :
          Handled(add_file_cmd(scores, clock, user, file))
    /\ UNCHANGED <<clock, running, calls>>

Message ==
    /\ running
    /\ \E user \in Users, raw \in Messages :
          Handled(handle_message(scores, user, raw))
    /\ UNCHANGED <<clock, running, calls>>

Next ==
    \/ Main
    \/ Tick
    \/ Add
    \/ Edit
    \/ Remove
    \/ RemoveAll
    \/ ListCodes
    \/ AddBulk
    \/ AddFile
    \/ Message

Spec == Init /\ [][Next]_vars

\* ------------------------------------------------- validator on its own
\* the codes the validator is run on: the first digits of a few codes with
\* every choice of the last FreeDigits digits, and the repeated-digit codes
FreeDigits == 3

BaseCodes ==
    { <<0, 0, 1, 2, 3, 4, 5, 6, 7, 9>>, <<0, 0, 8, 4, 5, 7, 1, 2, 3, 3>>,
      <<1, 1, 1, 1, 1, 1, 1, 1, 1, 1>>, <<9, 9, 9, 9, 9, 9, 9, 9, 9, 9>> }

TenDigitCodes ==
    { D(SubSeq(b, 1, 10 - FreeDigits) \o t) :
        b \in BaseCodes, t \in [1..FreeDigits -> 0..9] }
    \cup { D([i \in 1..10 |-> d]) : d \in 0..9 }

InitValidate ==
    /\ scores = EmptyBag
    /\ clock = 0
    /\ running = FALSE
    /\ last \in { [Out("validate", 0) EXCEPT !.code = c] : c \in TenDigitCodes }
    /\ calls = NoCalls

Validate ==
    /\ last.op = "validate"
    /\ last' = [last EXCEPT !.op = "validated",
                            !.ret = valid_iranian_national_code(last.code)]
    /\ UNCHANGED <<scores, clock, running, calls>>

SpecValidate == InitValidate /\ [][Validate]_vars

\* ------------------------------------------- /list_codes on a large table
\* how many distinct keys beyond ListLimit the tables have
MaxExcess == 1

Digits3(n) == <<n \div 100, (n \div 10) % 10, n % 10>>

\* the digit that makes nine digits a valid code, from its remainder
CheckOf(r) == IF r < 2 THEN r ELSE 11 - r

CheckDigit(d9) == CheckOf(WeightedSum(d9 \o <<0>>, 0) % 11)

Code9(d9) == D(d9 \o <<CheckDigit(d9)>>)

\* the n-th of the valid codes 001234xxxc
ValidCode(n) == Code9(<<0, 0, 1, 2, 3, 4>> \o Digits3(n))

\* the numbers of distinct keys of the tables
KeyCounts == {1, 2} \cup ((ListLimit - 1)..(ListLimit + MaxExcess))

\* the table after /add of math for the first n valid codes and of persian
\* for the first of them
StoreOf(n) ==
    SetToBag({ Row(hmac_code(ValidCode(k)), Math, 18, 0) : k \in 1..n }
             \cup { Row(hmac_code(ValidCode(1)), Persian, 17, 0) })

InitList ==
    /\ scores \in { StoreOf(n) : n \in KeyCounts }
    /\ clock = 0
    /\ running = TRUE
    /\ last = Out("none", 0)
    /\ calls = NoCalls

\* the first /list_codes on the table
ListOnce ==
    /\ last.op = "none"
    /\ ListCodes

SpecList == InitList /\ [][ListOnce]_vars

\* ------------------------------------- add_or_update_score run in parallel
\* the arguments of the calls
CallArgs ==
    { <<CodeA, Math, Num(16)>>, <<CodeA, Sp \o MathCap, Num(17)>>,
      <<CodeA, Math, Num(18)>>, <<CodeA, Persian, Num(17)>> }

\* the process is running on the table main() left
InitConcurrent ==
    /\ scores = Seeded(EmptyBag, 0)
    /\ clock = 0
    /\ running = TRUE
    /\ last = Out("main", 0)
    /\ calls = NoCalls

\* the call up to the clock: the key and the stored subject are computed
Call(w) ==
    /\ calls[w].pc = "idle"
    /\ \E a \in CallArgs :
          calls' = [calls EXCEPT ![w] = [Idle EXCEPT !.pc = "called", !.code = a[1],
                                                    !.subject = a[2], !.score = a[3]]]
    /\ UNCHANGED <<scores, clock, running, last>>

\* now = datetime.utcnow().isoformat()
ReadClock(w) ==
    /\ calls[w].pc = "called"
    /\ calls' = [calls EXCEPT ![w].pc = "timed", ![w].now = clock]
    /\ UNCHANGED <<scores, clock, running, last>>

\* the calls whose statement has run
Done(cs) == {w \in DOMAIN cs : cs[w].pc = "done"}

\* the statement written by call c
Executed(db, c) == add_or_update_score(db, c.code, c.subject, c.score, c.now)

\* get_conn() and cur.execute(...): the statement, which SQLite runs as one
\* transaction of its own, one statement after the other; seq is its place
\* in that order
Execute(w) ==
    /\ calls[w].pc = "timed"
    /\ scores' = Executed(scores, calls[w]).db
    /\ calls' = [calls EXCEPT ![w].pc = "done",
                              ![w].seq = Cardinality(Done(calls)) + 1]
    /\ last' = Out("add_or_update_score", w)
    /\ UNCHANGED <<clock, running>>

NextConcurrent ==
    \/ Tick
    \/ \E w \in Writers : Call(w)
    \/ \E w \in Writers : ReadClock(w)
    \/ \E w \in Writers : Execute(w)

SpecConcurrent == InitConcurrent /\ [][NextConcurrent]_vars

\* ------------------------------------------------------------------ claims
MutationOps == {"add", "edit", "remove", "remove_all", "add_bulk", "add_file"}
BulkOps == {"add_bulk", "add_file"}

KeyOf(code) == hmac_code(code)
Normal(subject) == Lower(Strip(subject))

\* the number of rows of db for a key and a stored subject
Copies(db, code_h, subj) == CountIn(db, Matching(db, code_h, subj))

\* what the loop of a bulk handler read off row i of the last update
RowRequest(out, i) ==
    IF out.op = "add_bulk" THEN LineRequest(out.rows[i]) ELSE FileRowRequest(out.rows[i])

\* the rows of the last bulk update that were written
SavedRows(out) == {i \in 1..Len(out.results) : out.results[i].kind = "saved"}

\* a step in which a handler ran: every step but Tick leaves the clock alone,
\* and Tick leaves last alone
Update == clock' = clock

\* C1: the table never holds two rows for one (code_hmac, subject) pair,
\* whatever sequence of startup seeding, add/edit, remove, remove_all and
\* bulk adds led to it.
C1_Theorem ==
    \A r \in BagToSet(scores) : Copies(scores, r.code_hmac, r.subject) = 1

\* a bulk add wrote the same pair twice and one row holds it
C1_Witness ==
    /\ last.op = "add_bulk"
    /\ last.reply = "results"
    /\ Len(last.results) = 2
    /\ last.results[1].kind = "saved"
    /\ last.results[2] = last.results[1]
    /\ Copies(scores, KeyOf(last.results[1].code), Normal(last.results[1].subject)) = 1

\* C2: a mutation command of a caller outside ADMINS is answered with the
\* admins-only reply and leaves the table as it was.
C2_Theorem ==
    [][ (Update /\ last'.op \in MutationOps /\ last'.caller \notin ADMINS)
            => (last'.reply = "admins_only" /\ ~last'.fault /\ scores' = scores) ]_vars

\* a caller outside ADMINS was refused a remove_all on a table that holds
\* rows of both codes
C2_Witness ==
    /\ last.op = "remove_all"
    /\ last.caller \notin ADMINS
    /\ last.reply = "admins_only"
    /\ OfKey(scores, KeyOf(CodeA)) # {}
    /\ OfKey(scores, KeyOf(CodeB)) # {}

\* C3 as claimed: in a bulk add of an admin every row is processed, whatever
\* happened to the rows before it, and the rows that were accepted are in the
\* table.
C3_Claim ==
    (last.op \in BulkOps /\ last.caller \in ADMINS /\ last.rows # <<>>)
        => /\ last.processed = Len(last.rows)
           /\ \A i \in SavedRows(last) :
                 Copies(scores, KeyOf(last.results[i].code),
                        Normal(last.results[i].subject)) = 1

C5_Claim ==
    (last.op \in BulkOps /\ last.caller \in ADMINS /\ last.rows # <<>>)
        => /\ last.reply = "results"
           /\ Len(last.results) = Len(last.rows)
           /\ \A i \in 1..Len(last.results) :
                 LET q == RowRequest(last, i)
                 IN  /\ last.results[i].kind = (IF q.reply = "" THEN "saved" ELSE q.reply)
                     /\ last.results[i].code = q.code
                     /\ q.reply = "bad_format" => last.results[i].line = last.rows[i]

\* str.upper, the inverse of Lower on the letters of the model
Upper(text) ==
    [i \in DOMAIN text |->
        IF text[i] \in Range(Letters) THEN Capitals[IndexOf(Letters, text[i])]
        ELSE text[i]]

Pads == { <<>>, Sp, NL, <<"\t", " ">> }

\* the subjects that differ from s in letter case and outer whitespace only
Variants(s) ==
    { l \o c \o r : l \in Pads, r \in Pads,
                     c \in { Strip(s), Lower(Strip(s)), Upper(Strip(s)) } }

RoundTrip(code, subject, v) ==
    \A s2 \in Variants(subject) :
        LET row == lookup_subject(scores, code, s2)
        IN  row # <<>> /\ row[2] = v

Greatest(S) == CHOOSE x \in S : \A y \in S : y <= x

\* C6: after a write of (code, s, v), the last write of the update to its
\* pair, lookup_subject(code, s2) returns the row with score v for every s2
\* that differs from s in letter case or outer whitespace only.
C6_Theorem ==
    /\ (last.op \in {"add", "edit"} /\ last.reply = "saved")
          => RoundTrip(last.code, last.subject, last.score.val)
    /\ (last.op \in BulkOps /\ SavedRows(last) # {})
          => LET q == RowRequest(last, Greatest(SavedRows(last)))
             IN  RoundTrip(q.code, q.subject, q.score.val)

\* a file row with the subject " Math " was written
C6_Witness ==
    /\ last.op = "add_file"
    /\ SavedRows(last) # {}
    /\ RowRequest(last, Greatest(SavedRows(last))).subject = Sp \o MathCap \o Sp

\* C7: when an add/edit that wrote (code, subject, v) is followed by one
\* that writes the same again, the table holds one row for the pair, with
\* score v and an updated_at not before the first one's, and its other rows
\* are those it held after the first write.
C7_Theorem ==
    [][ (Update /\ last'.again)
        => LET k == KeyOf(last.code)
               subj == Normal(last.subject)
               old == Matching(scores, k, subj)
               new == Matching(scores', k, subj)
           IN  /\ Copies(scores', k, subj) = 1
               /\ \A r \in new : r.score = last.score.val
               /\ \A r \in new : \A o \in old : r.updated_at >= o.updated_at
               /\ Without(scores', new) = Without(scores, old) ]_vars

\* the same score was written twice in a row, the second time later
C7_Witness ==
    /\ last.again
    /\ clock > 0
    /\ \E r \in Matching(scores, KeyOf(last.code), Normal(last.subject)) :
          r.updated_at = clock /\ r.score = last.score.val
    /\ BagCardinality(scores) > 4

\* C8: remove_score returns true iff the table held a row for the key and
\* the normalized subject; then exactly that row is gone, and when it
\* returns false the table is as it was.
C8_Theorem ==
    [][ (Update /\ last'.op = "remove" /\ last'.reply \in {"removed", "not_found"})
        => LET hit == Matching(scores, KeyOf(last'.code), Normal(last'.subject))
           IN  /\ last'.ret = (hit # {})
               /\ last'.ret => (scores' (+) SetToBag(hit) = scores)
               /\ ~last'.ret => scores' = scores ]_vars

\* a row was removed and another row of the same code is still there
C8_Witness ==
    /\ last.op = "remove"
    /\ last.ret
    /\ Matching(scores, KeyOf(last.code), Normal(last.subject)) = {}
    /\ OfKey(scores, KeyOf(last.code)) # {}

\* C9: remove_all_scores returns the number of rows the table held under
\* the key; afterwards none is left under it and the rows of the other keys
\* are as they were.
C9_Theorem ==
    [][ (Update /\ last'.op = "remove_all" /\ last'.reply = "removed_count")
        => LET k == KeyOf(last'.code)
           IN  /\ last'.removed = Cardinality(OfKey(scores, k))
               /\ OfKey(scores', k) = {}
               /\ scores' (+) SetToBag(OfKey(scores, k)) = scores ]_vars

\* two rows of one code were removed and a row of another valid code is left
C9_Witness ==
    /\ last.op = "remove_all"
    /\ last.removed = 2
    /\ OfKey(scores, KeyOf(CodeB)) # {}

\* the check digit rule as the specification words it
CheckDigitRule(code) ==
    LET d == [i \in 0..9 |-> DigitVal(code[i + 1])]
        s == d[0] * 10 + d[1] * 9 + d[2] * 8 + d[3] * 7 + d[4] * 6
             + d[5] * 5 + d[6] * 4 + d[7] * 3 + d[8] * 2
        r == s % 11
    IN  /\ \E i \in 1..10 : code[i] # code[1]
        /\ \/ r < 2 /\ d[9] = r
           \/ r >= 2 /\ d[9] = 11 - r

\* C10: a string of ten ASCII digits is valid iff its digits are not all the
\* same and the check digit rule holds; 0000000000 is rejected.
C10_Theorem ==
    last.op = "validated"
        => /\ last.ret = CheckDigitRule(last.code)
           /\ last.code = D(<<0, 0, 0, 0, 0, 0, 0, 0, 0, 0>>) => ~last.ret

\* a code whose remainder is below 2 was found valid
C10_Witness ==
    /\ last.op = "validated"
    /\ last.ret
    /\ last.code[10] = "0"

\* exactly ten ASCII digits
TenAsciiDigits(code) == Len(code) = 10 /\ Range(code) \subseteq Range(AsciiDigits)

\* the replies of the handlers that come after a call of hmac_code
KeyedReplies ==
    {"saved", "removed", "not_found", "removed_count",
     "scores", "no_scores", "score", "no_such_subject"}

\* C11 as claimed: a code that, after the translation of Persian digits, is
\* not ten ASCII digits is reported invalid: no handler goes on to hmac_code
\* with it and no row of the table is keyed by it.
C11_Claim ==
    /\ (running /\ last.reply \in KeyedReplies) => TenAsciiDigits(last.code)
    /\ \A i \in DOMAIN last.results :
          (last.op \in BulkOps /\ last.results[i].kind = "saved")
              => TenAsciiDigits(last.results[i].code)
    /\ \A r \in BagToSet(scores) : TenAsciiDigits(r.code_hmac.hmac_sha256)

\* C12 as claimed: from process start on, hmac_code is called with codes that
\* passed valid_iranian_national_code only, so every key of the table is the
\* HMAC of a checksum-valid code.
C12_Claim ==
    /\ (running /\ last.reply \in KeyedReplies) => valid_iranian_national_code(last.code)
    /\ \A r \in BagToSet(scores) : valid_iranian_national_code(r.code_hmac.hmac_sha256)

\* C13 as claimed: the updated_at of a (code_hmac, subject) pair never
\* decreases from one write of the pair to the next, also when two calls of
\* add_or_update_score for the pair are in progress at once.
C13_Claim ==
    [][ \A o \in BagToSet(scores), n \in BagToSet(scores') :
            (n.code_hmac = o.code_hmac /\ n.subject = o.subject)
                => n.updated_at >= o.updated_at ]_vars

\* the pair a call writes
PairOf(c) == <<KeyOf(c.code), Normal(c.subject)>>

\* the calls that have written the pair of call w
SamePair(w) == {v \in Done(calls) : PairOf(calls[v]) = PairOf(calls[w])}

\* the one of them whose statement ran last
LastWriter(w) == CHOOSE v \in SamePair(w) : \A u \in SamePair(w) : calls[u].seq <= calls[v].seq

\* C14: whatever the interleaving of the calls of add_or_update_score, the
\* table holds one row for every pair written, its score that of the call
\* whose statement ran last, no pair twice, and the rows of the pairs no call
\* wrote as they were.
C14_Theorem ==
    /\ \A w \in Done(calls) :
          /\ Copies(scores, PairOf(calls[w])[1], PairOf(calls[w])[2]) = 1
          /\ \A r \in Matching(scores, PairOf(calls[w])[1], PairOf(calls[w])[2]) :
                r.score = calls[LastWriter(w)].score.val
    /\ \A r \in BagToSet(scores) : Copies(scores, r.code_hmac, r.subject) = 1
    /\ \A r \in BagToSet(scores) :
          \/ \E w \in Done(calls) : PairOf(calls[w]) = <<r.code_hmac, r.subject>>
          \/ r \in BagToSet(Seeded(EmptyBag, 0))
    /\ \A r \in BagToSet(Seeded(EmptyBag, 0)) : r \in BagToSet(scores)

\* two calls wrote one pair with different scores, and the one that read the
\* clock first wrote last
C14_Witness ==
    /\ Done(calls) = Writers
    /\ PairOf(calls[1]) = PairOf(calls[2])
    /\ calls[1].score # calls[2].score
    /\ calls[1].seq > calls[2].seq
    /\ calls[1].now < calls[2].now

\* C15: a message (plain lookup or subject lookup) and /list_codes leave the
\* table as it was, whoever sent them and whatever the text.
C15_Theorem ==
    [][ (Update /\ last'.op \in {"message", "list_codes"}) => scores' = scores ]_vars

\* a caller outside ADMINS looked up a code and was sent its two scores
C15_Witness ==
    /\ last.op = "message"
    /\ last.caller \notin ADMINS
    /\ last.reply = "scores"
    /\ Len(last.results) = 2
    /\ Cardinality(OfKey(scores, KeyOf(last.code))) = 2

\* C16 as claimed: no exception leaves a handler: whatever goes wrong inside
\* it, the failing write of a score included, ends in a reply to the caller.
C16_Claim ==
    last.op \in MutationOps \cup {"message", "list_codes"} => ~last.fault

\* the entry of a row in the result of a lookup
Entry(r) == <<r.subject, r.score, r.updated_at>>

\* C17: a plain lookup of a code returns the rows stored under the key of the
\* code and no other, one entry per subject, in ascending order of the
\* subjects, and is answered "no score" exactly when there is no such row.
C17_Theorem ==
    (last.op = "message" /\ last.reply \in {"scores", "no_scores"})
        => LET rows == OfKey(scores, KeyOf(last.code))
           IN  /\ (last.reply = "no_scores") = (rows = {})
               /\ Len(last.results) = Cardinality(rows)
               /\ Range(last.results) = {Entry(r) : r \in rows}
               /\ \A i, j \in DOMAIN last.results :
                     i < j => TextLess(last.results[i][1], last.results[j][1])

\* the lookup returned math before persian although math was written later,
\* and left out the rows of the other codes
C17_Witness ==
    /\ last.op = "message"
    /\ last.reply = "scores"
    /\ Len(last.results) = 2
    /\ last.results[1][1] = Math
    /\ last.results[1][3] > last.results[2][3]
    /\ BagCardinality(scores) > 2

\* C18: the reply of /list_codes holds at most ListLimit keys, each of them
\* a key of the table and none of them twice, also when the table holds more
\* distinct keys than that or several rows per key.
C18_Theorem ==
    (last.op = "list_codes" /\ last.reply = "codes")
        => /\ BagCardinality(last.keys) <= ListLimit
           /\ \A k \in BagToSet(last.keys) :
                 CopiesIn(k, last.keys) = 1 /\ k \in DistinctKeys(scores)

\* the table holds more than ListLimit distinct keys, one of them with two
\* rows, and ListLimit of them were listed
C18_Witness ==
    /\ last.op = "list_codes"
    /\ last.reply = "codes"
    /\ Cardinality(DistinctKeys(scores)) > ListLimit
    /\ BagCardinality(scores) > Cardinality(DistinctKeys(scores))
    /\ BagCardinality(last.keys) = ListLimit
    /\ \A r \in BagToSet(scores) : valid_iranian_national_code(r.code_hmac.hmac_sha256)

\* the fields of row i of a bulk update: the tokens of a line, the cells of a
\* row of a file
FieldsOf(out, i) == IF out.op = "add_bulk" THEN Parts(out.rows[i]) ELSE out.rows[i]

\* the outcome the check order shape, code, score gives a row of fields
Outcome(fields) ==
    IF Len(fields) < 3 THEN "bad_format"
    ELSE IF ~valid_iranian_national_code(persian_to_english_number(fields[1]))
    THEN "invalid_code"
    ELSE IF Float(persian_to_english_number(fields[Len(fields)])) = ValueError
    THEN "bad_score"
    ELSE "saved"

\* the pairs of the rows of a bulk update whose outcome is accepted
AcceptedPairs(out) ==
    { <<KeyOf(persian_to_english_number(FieldsOf(out, i)[1])),
        Normal(RowRequest(out, i).subject)>> :
        i \in {j \in DOMAIN out.rows : Outcome(FieldsOf(out, j)) = "saved"} }

\* C19 as claimed: in a bulk add of an admin, from text or from a file, every
\* row gets the outcome of the check order shape, code, score; the accepted
\* rows are in the table afterwards and the rows of the table that no
\* accepted row names are as they were.
C19_Claim ==
    [][ (Update /\ last'.op \in BulkOps /\ last'.caller \in ADMINS /\ last'.rows # <<>>)
        => /\ Len(last'.results) = Len(last'.rows)
           /\ \A i \in DOMAIN last'.results :
                 last'.results[i].kind = Outcome(FieldsOf(last', i))
           /\ \A p \in AcceptedPairs(last') : Copies(scores', p[1], p[2]) = 1
           /\ \A r \in BagToSet(scores) \cup BagToSet(scores') :
                 <<r.code_hmac, r.subject>> \notin AcceptedPairs(last')
                     => CopiesIn(r, scores') = CopiesIn(r, scores) ]_vars

RemoveName == <<"r", "e", "m", "o", "v", "e">>

\* the row written for code and subject text s is there, the message
\* "code s" is answered with its score and an admin's "/remove code s"
\* removes it
Reachable(code, s) ==
    /\ Copies(scores, KeyOf(code), Normal(s)) = 1
    /\ Reply(Out("message", 2), MessageRequest(code \o Sp \o s), scores).reply = "score"
    /\ RemoveApply(scores, Out("remove", 1),
                   RemoveRequest(Command(RemoveName, code \o Sp \o s))).out.reply
           = "removed"

\* C20 as claimed: the row a write path stored for a subject text s, be it
\* /add or /edit, a line of /add_bulk, a row of a file or the sample data of
\* main(), is found by the message "code s" and removed by "/remove code s".
C20_Claim ==
    /\ (last.op \in {"add", "edit"} /\ last.reply = "saved")
          => Reachable(last.code, last.subject)
    /\ (last.op \in BulkOps /\ SavedRows(last) # {})
          => Reachable(RowRequest(last, Greatest(SavedRows(last))).code,
                       RowRequest(last, Greatest(SavedRows(last))).subject)
    /\ last.op = "main"
          => /\ Reachable(SeedCode1, Riazi)
             /\ Reachable(SeedCode1, Farsi)
             /\ Reachable(SeedCode2, Zaban)

====
